---- MODULE Spec2Model ----
(***************************************************************************)
(* PictureSort (src/sort_images_by_date.py): the batch run of              *)
(* ImageSorter.sort_images and the functions it calls.                     *)
(*                                                                         *)
(* Representation.                                                         *)
(*  - A point in time is a number of ticks since 1970-01-01 00:00:00;      *)
(*    TicksPerSecond ticks make a second (datetime keeps microseconds,     *)
(*    strptime and strftime work on whole seconds).                        *)
(*  - A character string is a sequence of tokens (short pieces of text);   *)
(*    "." and "_" are always tokens of their own, so that splitting at a   *)
(*    dot and joining with an underscore act on the text as the code does. *)
(*  - An angle is a whole number of arc seconds (degrees * 3600).          *)
(*  - None is the empty tuple.                                             *)
(***************************************************************************)
EXTENDS Integers, Sequences, FiniteSets, TLC

VARIABLES
    source_exists,      \* self.source_dir.exists()
    tree,               \* what source_dir.rglob('*') yields, in its order
    dest_exists,        \* self.dest_dir.exists()
    dest_files,         \* the files of dest_dir: name -> content
    csv_file,           \* dest_dir / "gps_positions.csv": its content
    include_gps,        \* --gps
    include_dir,        \* --dir
    stats,              \* self.stats
    gps_data,           \* self.gps_data
    image_files,        \* find_image_files' result
    images_with_data,   \* sort_images' list of analysed images
    idx,                \* position of the running for loop
    pc,                 \* where sort_images is
    exit_code,          \* the process' exit status, -1 while it runs
    console,            \* everything printed so far
    arg,                \* the argument of the last single function call
    ret                 \* its result

vars == <<source_exists, tree, dest_exists, dest_files, csv_file, include_gps,
          include_dir, stats, gps_data, image_files, images_with_data, idx,
          pc, exit_code, console, arg, ret>>

run_vars_but_pc == <<source_exists, tree, dest_exists, dest_files, csv_file,
                     include_gps, include_dir, gps_data, image_files,
                     images_with_data, idx, exit_code>>

----------------------------------------------------------------------------
(* Bounds of the model. *)

\* ticks per second of the model's clock
TicksPerSecond == 2
\* the largest second of an EXIF date in a single call
MaxSecond == 1
\* the largest file time, in ticks, in a single call
MaxFsTick == 3
\* the largest value a counter of self.stats has before a single call
MaxPrior == 1
\* the largest number of degrees of a GPS tag in a single call
MaxDeg == 181
\* the largest suffix _<n> present in the destination before a single call
MaxSuffix == 2
\* the largest tick a date shows in a whole run
MaxRunTick == 1
\* the most entries of the source tree in a whole run
MaxFiles == 2
\* the most files the destination holds before a whole run
MaxPre == 2

None == <<>>

Min(a, b) == IF a <= b THEN a ELSE b

Range(s) == {s[i] : i \in DOMAIN s}

\* s with every element not satisfying keep(_) dropped
RECURSIVE SelectFrom(_, _)
SelectFrom(s, keep) ==
    IF s = <<>> THEN <<>>
    ELSE IF Head(s) \in keep THEN <<Head(s)>> \o SelectFrom(Tail(s), keep)
         ELSE SelectFrom(Tail(s), keep)

----------------------------------------------------------------------------
(* self.stats *)

StatKeys == {"total_files", "exif_files", "filesystem_date_files",
             "current_date_files", "gps_files", "copied_files", "error_files"}

InitStats == [k \in StatKeys |-> 0]

Incr(st, k) == [st EXCEPT ![k] = @ + 1]

----------------------------------------------------------------------------
(* Dates: datetime.strptime and datetime.strftime. *)

\* An EXIF date string "Y:M:D h:m:s" is the tuple of its six numbers;
\* any other text is a tuple of another shape.
\* strptime(s, '%Y:%m:%d %H:%M:%S') raises ValueError unless this holds
StrptimeAccepts(s) ==
    /\ Len(s) = 6
    /\ s[1] >= 1 /\ s[1] <= 9999
    /\ s[2] >= 1 /\ s[2] <= 12
    /\ s[3] >= 1 /\ s[3] <= 31
    /\ s[4] >= 0 /\ s[4] <= 23
    /\ s[5] >= 0 /\ s[5] <= 59
    /\ s[6] >= 0 /\ s[6] <= 61

\* the datetime strptime returns, in ticks (dates of January 1970)
Strptime(s) ==
    ((((s[3] - 1) * 24 + s[4]) * 60 + s[5]) * 60 + s[6]) * TicksPerSecond

\* the whole second a datetime lies in
SecondOf(t) == t \div TicksPerSecond

\* date.strftime('%Y%m%d_%H%M%S')
StrftimeCompact(t) ==
    LET s == SecondOf(t)
    IN  << ToString(19700101 + s \div 86400), "_",
           ToString(1000000 + ((s \div 3600) % 24) * 10000
                            + ((s \div 60) % 60) * 100 + (s % 60)) >>

\* date.strftime('%Y-%m-%d %H:%M:%S')
StrftimeLong(t) ==
    LET s == SecondOf(t)
    IN  << 1970, 1, 1 + s \div 86400, (s \div 3600) % 24, (s \div 60) % 60, (s % 60) >>

----------------------------------------------------------------------------
(* ImageSorter.get_image_date *)

\* A file as the functions read it:
\*   openable  Image.open succeeds
\*   has_exif  img._getexif() is not None
\*   dto       <<>> when the DateTimeOriginal tag is absent, else <<v>> with
\*             v = [type |-> "str" or "bytes", text |-> the tag's value]
\*   gps       the GPS tags, a set of <<tag, value>>
\*   stat_ok   image_path.stat() succeeds
\*   ctime, mtime  st_ctime, st_mtime in ticks

\* lines 147-157: the date of the DateTimeOriginal tag, None when it does not parse
DateFromTag(v) ==
    IF StrptimeAccepts(v.text) THEN <<Strptime(v.text)>> ELSE None

\* lines 140-160: the try block. kind is "return" (with date), "raise" or "fall"
TryExif(meta) ==
    IF ~meta.openable THEN [kind |-> "raise"]
    ELSE IF ~meta.has_exif \/ meta.dto = <<>> THEN [kind |-> "fall"]
    ELSE IF meta.dto[1].type # "str" THEN [kind |-> "raise"]
    ELSE IF DateFromTag(meta.dto[1]) = None THEN [kind |-> "fall"]
    ELSE [kind |-> "return", date |-> DateFromTag(meta.dto[1])[1]]

\* A fallback that takes st_mtime where the code takes the earlier of
\* st_ctime and st_mtime.
FallbackDateMtime(image_path, meta, now, st, con) ==
    IF meta.stat_ok
    THEN [date    |-> meta.mtime,
          source  |-> <<"Dateisystem: ", StrftimeLong(meta.mtime)>>,
          stats   |-> Incr(st, "filesystem_date_files"),
          console |-> con]
    ELSE [date    |-> now,
          source  |-> <<"Aktuelles Datum: ", StrftimeLong(now)>>,
          stats   |-> Incr(st, "current_date_files"),
          console |-> Append(con, <<"Warnung: Konnte Dateisystem-Datum nicht lesen fuer", image_path>>)]

\* A fallback that leaves the current-date counter alone.
FallbackDateUncounted(image_path, meta, now, st, con) ==
    IF meta.stat_ok
    THEN LET date == Min(meta.ctime, meta.mtime)
         IN  [date    |-> date,
              source  |-> <<"Dateisystem: ", StrftimeLong(date)>>,
              stats   |-> Incr(st, "filesystem_date_files"),
              console |-> con]
    ELSE [date    |-> now,
          source  |-> <<"Aktuelles Datum: ", StrftimeLong(now)>>,
          stats   |-> st,
          console |-> Append(con, <<"Warnung: Konnte Dateisystem-Datum nicht lesen fuer", image_path>>)]

\* lines 162-174: the filesystem date, else the current date
FallbackDate(image_path, meta, now, st, con) ==
    IF meta.stat_ok
    THEN LET date == Min(meta.ctime, meta.mtime)
         IN  [date    |-> date,
              source  |-> <<"Dateisystem: ", StrftimeLong(date)>>,
              stats   |-> Incr(st, "filesystem_date_files"),
              console |-> con]
    ELSE [date    |-> now,
          source  |-> <<"Aktuelles Datum: ", StrftimeLong(now)>>,
          stats   |-> Incr(st, "current_date_files"),
          console |-> Append(con, <<"Warnung: Konnte Dateisystem-Datum nicht lesen fuer", image_path>>)]

get_image_date(image_path, meta, now, st, con) ==
    LET t == TryExif(meta)
    IN  IF t.kind = "return"
        THEN [date    |-> t.date,
              source  |-> <<"EXIF: ", meta.dto[1].text>>,
              stats   |-> Incr(st, "exif_files"),
              console |-> con]
        ELSE IF t.kind = "raise"
        THEN FallbackDate(image_path, meta, now, st,
                 Append(con, <<"Warnung: Konnte Exif-Daten nicht lesen fuer", image_path>>))
        ELSE FallbackDate(image_path, meta, now, st, con)

----------------------------------------------------------------------------
(* ImageSorter.get_gps_coordinates and _convert_to_degrees *)

\* a dict as a set of <<key, value>>
HasKey(d, k) == \E e \in d : e[1] = k

Lookup(d, k) == (CHOOSE e \in d : e[1] = k)[2]

\* dms[0], dms[1], dms[2] raise IndexError on a shorter tuple
ConvertRaises(dms) == Len(dms) < 3

\* degrees + minutes / 60.0 + seconds / 3600.0, in arc seconds
convert_to_degrees(dms) == dms[1] * 3600 + dms[2] * 60 + dms[3]

\* lines 84-100: the GPSLatitude / GPSLongitude tags
StructuredCoords(gps_tags) ==
    LET lat == convert_to_degrees(Lookup(gps_tags, "GPSLatitude"))
        lon == convert_to_degrees(Lookup(gps_tags, "GPSLongitude"))
        south == HasKey(gps_tags, "GPSLatitudeRef") /\ Lookup(gps_tags, "GPSLatitudeRef") = "S"
        west == HasKey(gps_tags, "GPSLongitudeRef") /\ Lookup(gps_tags, "GPSLongitudeRef") = "W"
    IN  << IF south THEN -lat ELSE lat, IF west THEN -lon ELSE lon >>

\* lines 103-123: the GPSInfo block
GroupedCoords(gps_info) ==
    LET lat == convert_to_degrees(Lookup(gps_info, 2))
        lon == convert_to_degrees(Lookup(gps_info, 4))
        south == HasKey(gps_info, 1) /\ Lookup(gps_info, 1) = "S"
        west == HasKey(gps_info, 3) /\ Lookup(gps_info, 3) = "W"
    IN  << IF south THEN -lat ELSE lat, IF west THEN -lon ELSE lon >>

get_gps_coordinates(image_path, meta, gps_on, st, con) ==
    LET none(c) == [coords |-> None, stats |-> st, console |-> c]
        found(ll) == [coords |-> ll, stats |-> Incr(st, "gps_files"), console |-> con]
    IN  IF ~gps_on THEN none(con)
        ELSE IF ~meta.openable
        THEN none(Append(con, <<"Warnung: Konnte GPS-Daten nicht lesen fuer", image_path>>))
        ELSE IF ~meta.has_exif THEN none(con)
        ELSE IF HasKey(meta.gps, "GPSLatitude") /\ HasKey(meta.gps, "GPSLongitude")
        THEN IF \/ ConvertRaises(Lookup(meta.gps, "GPSLatitude"))
                \/ ConvertRaises(Lookup(meta.gps, "GPSLongitude"))
             THEN none(Append(con, <<"Fehler bei GPS-Konvertierung fuer", image_path>>))
             ELSE found(StructuredCoords(meta.gps))
        ELSE IF HasKey(meta.gps, "GPSInfo")
        THEN LET gps_info == Lookup(meta.gps, "GPSInfo")
             IN  IF ~(HasKey(gps_info, 2) /\ HasKey(gps_info, 4)) THEN none(con)
                 ELSE IF \/ ConvertRaises(Lookup(gps_info, 2))
                         \/ ConvertRaises(Lookup(gps_info, 4))
                 THEN none(Append(con, <<"Fehler bei GPSInfo-Konvertierung fuer", image_path>>))
                 ELSE found(GroupedCoords(gps_info))
        ELSE none(con)

----------------------------------------------------------------------------
(* Paths and file names. *)

\* A path under source_dir: [dir, stem, suffix, is_file]. dir is the first
\* folder below source_dir ("" for a file of source_dir itself), stem is
\* Path.stem and suffix is Path.suffix without its dot.

\* str.lower() of a suffix
Lower(suffix) ==
    CASE suffix = "JPG"  -> "jpg"
      [] suffix = "JPEG" -> "jpeg"
      [] suffix = "PNG"  -> "png"
      [] OTHER -> suffix

\* line 36
supported_extensions == {"jpg", "jpeg", "png"}

\* the tokens that are neither \w nor one of - _ .
UnsafeTokens == {" ", "(", ")", "#"}

\* re.sub(r'[^\w\-_.]', '_', original_name)
SafeName(stem) ==
    [i \in DOMAIN stem |-> IF stem[i] \in UnsafeTokens THEN "_" ELSE stem[i]]

\* '_'.join(parts)
RECURSIVE JoinUnderscore(_)
JoinUnderscore(parts) ==
    IF parts = <<>> THEN <<>>
    ELSE IF Len(parts) = 1 THEN parts[1]
    ELSE parts[1] \o <<"_">> \o JoinUnderscore(Tail(parts))

\* f"{x:.6f}" of an angle: sign, degrees, ".", millionths of a degree
Format6f(x) ==
    LET a == IF x < 0 THEN -x ELSE x
        micro == (a * 5000 + 9) \div 18          \* a / 3600 * 10^6, rounded
    IN  << IF x < 0 THEN "-" \o ToString(micro \div 1000000)
                    ELSE ToString(micro \div 1000000),
           ".", ToString(1000000 + (micro % 1000000)) >>

\* lines 176-194
get_subfolder_name(image_path, dir_on) ==
    IF ~dir_on THEN <<>>
    ELSE IF image_path.dir = "" THEN <<>>
    ELSE <<"_", image_path.dir, "_">>

\* lines 196-218
generate_new_filename(original_path, date, gps_coords, subfolder) ==
    LET filename_parts ==
            <<StrftimeCompact(date)>>
            \o (IF subfolder # <<>> THEN <<subfolder>> ELSE <<>>)
            \o <<SafeName(original_path.stem)>>
            \o (IF gps_coords # None
                THEN << <<"_">> \o Format6f(gps_coords[1]) \o <<",">>
                        \o Format6f(gps_coords[2]) \o <<"_">> >>
                ELSE <<>>)
    IN  JoinUnderscore(filename_parts) \o <<".", Lower(original_path.suffix)>>

\* os.path.splitext: <<name, ext>>, split at the last dot that follows a
\* token other than a dot
LastDot(name) ==
    LET dots == {i \in DOMAIN name :
                    name[i] = "." /\ \E j \in 1..(i - 1) : name[j] # "."}
    IN  IF dots = {} THEN 0 ELSE CHOOSE i \in dots : \A j \in dots : j <= i

Splitext(name) ==
    IF LastDot(name) = 0 THEN <<name, <<>>>>
    ELSE <<SubSeq(name, 1, LastDot(name) - 1), SubSeq(name, LastDot(name), Len(name))>>

\* A candidate with the counter after the extension.
CandidateAfterExt(base_filename, counter) ==
    IF counter = 0 THEN base_filename
    ELSE base_filename \o <<"_", ToString(counter)>>

\* line 232
Candidate(base_filename, counter) ==
    IF counter = 0 THEN base_filename
    ELSE Splitext(base_filename)[1] \o <<"_", ToString(counter)>>
         \o Splitext(base_filename)[2]

\* lines 228-236: the loop from counter on; present is the set of names in dest_dir
RECURSIVE ProbeFrom(_, _, _)
ProbeFrom(base_filename, counter, present) ==
    IF Candidate(base_filename, counter) \notin present
    THEN Candidate(base_filename, counter)
    ELSE ProbeFrom(base_filename, counter + 1, present)

\* A lookup that returns the base name without probing the directory.
UnprobedFilename(base_filename, dir_exists, present) ==
    base_filename

\* lines 220-236
get_unique_filename(base_filename, dir_exists, present) ==
    IF ~dir_exists THEN base_filename
    ELSE ProbeFrom(base_filename, 0, present)

\* An insertion that puts an item before the items of its own date: the sort
\* it gives is ordered by date but not stable.
RECURSIVE InsertBeforeEqual(_, _)
InsertBeforeEqual(sorted, x) ==
    IF sorted = <<>> THEN <<x>>
    ELSE IF sorted[Len(sorted)].date < x.date THEN Append(sorted, x)
    ELSE Append(InsertBeforeEqual(SubSeq(sorted, 1, Len(sorted) - 1), x), sorted[Len(sorted)])

\* line 308: images_with_data.sort(key=lambda x: x[1]), a stable sort
RECURSIVE InsertByDate(_, _)
InsertByDate(sorted, x) ==
    IF sorted = <<>> THEN <<x>>
    ELSE IF sorted[Len(sorted)].date <= x.date THEN Append(sorted, x)
    ELSE Append(InsertByDate(SubSeq(sorted, 1, Len(sorted) - 1), x), sorted[Len(sorted)])

RECURSIVE SortByDate(_)
SortByDate(s) ==
    IF s = <<>> THEN <<>>
    ELSE InsertByDate(SortByDate(SubSeq(s, 1, Len(s) - 1)), s[Len(s)])

----------------------------------------------------------------------------
(* The inputs. *)

NoCall == [kind |-> "none"]

\* the values of a DateTimeOriginal tag: dates of the first seconds, the
\* all-zero date cameras write without a clock, a month 13, the empty text
ExifTexts ==
    {<<1970, 1, 1, 0, 0, s>> : s \in 0..MaxSecond}
    \cup {<<0, 0, 0, 0, 0, 0>>, <<1970, 13, 1, 0, 0, 0>>, <<>>}

DtoValues ==
    {<<>>} \cup {<<[type |-> "str", text |-> t]>> : t \in ExifTexts}
           \cup {<<[type |-> "bytes", text |-> <<1970, 1, 1, 0, 0, 0>>]>>}

\* the files of a single get_image_date call
DateMetas ==
    {[openable |-> o, has_exif |-> e, dto |-> d, gps |-> {},
      stat_ok |-> TRUE, ctime |-> c, mtime |-> m] :
        o \in BOOLEAN, e \in BOOLEAN, d \in DtoValues,
        c \in 0..MaxFsTick, m \in 0..MaxFsTick}
    \cup
    {[openable |-> o, has_exif |-> e, dto |-> d, gps |-> {},
      stat_ok |-> FALSE, ctime |-> 0, mtime |-> 0] :
        o \in BOOLEAN, e \in BOOLEAN, d \in DtoValues}

\* datetime.now() is read only when stat() failed
NowChoices(meta, ticks) == IF meta.stat_ok THEN {0} ELSE ticks

PriorStats ==
    {[InitStats EXCEPT !["exif_files"] = a, !["filesystem_date_files"] = b,
                       !["current_date_files"] = c, !["gps_files"] = g] :
        a \in 0..MaxPrior, b \in 0..MaxPrior, c \in 0..MaxPrior, g \in 0..MaxPrior}

\* (degrees, minutes, seconds) tuples, and a tuple that is too short
DegValues == {d \in 0..MaxDeg : d % 90 \in {0, 1}}

DmsValues ==
    {<<d, m, sec>> : d \in DegValues, m \in {0, 59}, sec \in {0, 59}} \cup {<<45, 30>>}

LatRefs == {"N", "S"}

LonRefs == {"E", "W"}

\* the GPS tags of a file in the structured form
StructuredTags ==
    {{<<"GPSLatitude", la>>, <<"GPSLongitude", lo>>} \cup r1 \cup r2 :
        la \in DmsValues, lo \in DmsValues,
        r1 \in {{}} \cup {{<<"GPSLatitudeRef", r>>} : r \in LatRefs},
        r2 \in {{}} \cup {{<<"GPSLongitudeRef", r>>} : r \in LonRefs}}

\* the GPS tags of a file in the grouped form
GroupedTags ==
    {{<<"GPSInfo", {<<2, la>>, <<4, lo>>} \cup r1 \cup r2>>} :
        la \in DmsValues, lo \in DmsValues,
        r1 \in {{}} \cup {{<<1, r>>} : r \in LatRefs},
        r2 \in {{}} \cup {{<<3, r>>} : r \in LonRefs}}

\* other tags: none, a latitude alone, a block without its longitude, a
\* latitude tag beside a whole block
PartialTags ==
    { {}, {<<"GPSLatitude", <<45, 0, 0>>>>},
      {<<"GPSInfo", {<<1, "N">>, <<2, <<45, 0, 0>>>>}>>},
      {<<"GPSLatitude", <<45, 0, 0>>>>,
       <<"GPSInfo", {<<2, <<45, 0, 0>>>>, <<4, <<90, 0, 0>>>>}>>} }

GpsMetas ==
    {[openable |-> o, has_exif |-> e, dto |-> <<>>, gps |-> g,
      stat_ok |-> TRUE, ctime |-> 0, mtime |-> 0] :
        o \in BOOLEAN, e \in BOOLEAN,
        g \in StructuredTags \cup GroupedTags \cup PartialTags}

\* the entries of the source tree, in the order rglob yields them
TreeCandidates ==
    << [dir |-> "",  stem |-> <<"photo">>,           suffix |-> "jpg", is_file |-> TRUE],
       [dir |-> "a", stem |-> <<"photo">>,           suffix |-> "JPG", is_file |-> TRUE],
       [dir |-> "b", stem |-> <<"photo", " ", "1">>, suffix |-> "jpg", is_file |-> TRUE],
       [dir |-> "",  stem |-> <<"notes">>,           suffix |-> "txt", is_file |-> TRUE],
       [dir |-> "",  stem |-> <<"scans">>,           suffix |-> "png", is_file |-> FALSE] >>

Trees ==
    {SelectFrom(TreeCandidates, {TreeCandidates[i] : i \in I}) :
        I \in {J \in SUBSET DOMAIN TreeCandidates : Cardinality(J) <= MaxFiles}}

\* the files of a whole run: readable or not, dated by EXIF or not, with
\* coordinates or not
RunTags ==
    { {}, {<<"GPSLatitude", <<45, 0, 0>>>>, <<"GPSLongitude", <<90, 0, 0>>>>,
           <<"GPSLongitudeRef", "W">>} }

RunMetas ==
    {[openable |-> o, has_exif |-> o, dto |-> d, gps |-> g,
      stat_ok |-> TRUE, ctime |-> c, mtime |-> MaxRunTick] :
        o \in BOOLEAN, g \in RunTags, c \in 0..MaxRunTick,
        d \in {<<>>, <<[type |-> "str", text |-> <<1970, 1, 1, 0, 0, 0>>]>>}}
    \cup
    {[openable |-> o, has_exif |-> o, dto |-> <<>>, gps |-> g,
      stat_ok |-> FALSE, ctime |-> 0, mtime |-> 0] :
        o \in BOOLEAN, g \in RunTags}

\* name with _<n> put before its last two tokens, the dot and the extension
Suffixed(name, n) ==
    IF n = 0 THEN name
    ELSE SubSeq(name, 1, Len(name) - 2) \o <<"_", ToString(n)>>
         \o SubSeq(name, Len(name) - 1, Len(name))

\* the content of a file the run found in the destination
OldContent == <<"old">>

\* the destination before a run: MaxPre or fewer files, named as the run
\* will name its first candidate
PreName == generate_new_filename(TreeCandidates[1], 0, None, <<>>)

PreDirs ==
    {[n \in {Suffixed(PreName, k) : k \in 0..(j - 1)} |-> OldContent] : j \in 0..MaxPre}

\* gps_positions.csv: absent, or left by an earlier run
NoCsv == [exists |-> FALSE, rows |-> <<>>]

CsvHeader == <<"Name", "Latitude", "Longitude", "Description">>

OldCsv == [exists |-> TRUE, rows |-> <<CsvHeader, <<"old">>>>]

----------------------------------------------------------------------------
(* A whole run: main() and ImageSorter.sort_images. *)

Init ==
    /\ source_exists \in BOOLEAN
    /\ tree \in (IF source_exists THEN Trees ELSE {<<>>})
    /\ dest_exists \in BOOLEAN
    /\ dest_files \in (IF dest_exists THEN PreDirs ELSE {<<>>})
    /\ csv_file \in (IF dest_exists THEN {NoCsv, OldCsv} ELSE {NoCsv})
    /\ include_gps \in BOOLEAN
    /\ include_dir \in BOOLEAN
    /\ stats = InitStats
    /\ gps_data = <<>>
    /\ image_files = <<>>
    /\ images_with_data = <<>>
    /\ idx = 0
    /\ pc = "start"
    /\ exit_code = -1
    /\ console = <<>>
    /\ arg = NoCall
    /\ ret = NoCall

\* lines 399-401: main's handler of an exception sort_images lets through
Abort(message) ==
    /\ console' = Append(console, <<"Fehler: ", message>>)
    /\ exit_code' = 1
    /\ pc' = "exit"

\* lines 58-60: the entries find_image_files keeps
IsImage(file_path) ==
    file_path.is_file /\ Lower(file_path.suffix) \in supported_extensions

\* lines 49-64, without the raise
find_image_files(entries) == SelectFrom(entries, {e \in Range(entries) : IsImage(e)})

\* lines 284-291: mkdir, find_image_files, the return when nothing was found
Start ==
    /\ pc = "start"
    /\ \E mkdir_ok \in (IF dest_exists THEN {TRUE} ELSE BOOLEAN) :
        IF ~mkdir_ok
        THEN /\ Abort("mkdir")
             /\ UNCHANGED <<dest_exists, image_files, stats, idx>>
        ELSE /\ dest_exists' = TRUE
             /\ IF ~source_exists
                THEN /\ Abort("Quellverzeichnis existiert nicht")
                     /\ UNCHANGED <<image_files, stats, idx>>
                ELSE LET found == find_image_files(tree)
                         con == console \o << <<"Durchsuche Verzeichnis">>,
                                              <<"Gefunden: ", Len(found)>> >>
                     IN  /\ image_files' = found
                         /\ stats' = [stats EXCEPT !["total_files"] = Len(found)]
                         /\ IF found = <<>>
                            THEN /\ console' = Append(con, <<"Keine Bilddateien gefunden.">>)
                                 /\ exit_code' = 0
                                 /\ pc' = "exit"
                                 /\ idx' = idx
                            ELSE /\ console' = Append(con, <<"Analysiere Bilddaten...">>)
                                 /\ exit_code' = exit_code
                                 /\ pc' = "analyse"
                                 /\ idx' = 1
    /\ UNCHANGED <<source_exists, tree, dest_files, csv_file, include_gps,
                   include_dir, gps_data, images_with_data, arg, ret>>

\* lines 299-302: what one pass of the analysis loop appends, with the
\* statistics and the console after it
AnalyseOne(image_path, meta, now, st, con) ==
    LET d == get_image_date(image_path, meta, now, st, con)
        g == get_gps_coordinates(image_path, meta, include_gps, d.stats, d.console)
    IN  [item    |-> [path |-> image_path, date |-> d.date, source |-> d.source,
                      gps_coords |-> g.coords,
                      subfolder |-> get_subfolder_name(image_path, include_dir)],
         stats   |-> g.stats,
         console |-> g.console]

\* lines 297-311: one pass of the analysis loop; the last pass goes on to
\* the sort. None of the three calls raises, so line 305 is never reached.
Analyse ==
    /\ pc = "analyse"
    /\ \E meta \in RunMetas :
       \E now \in NowChoices(meta, {MaxRunTick}) :
        LET a == AnalyseOne(image_files[idx], meta, now, stats, console)
            all == Append(images_with_data, a.item)
        IN  /\ stats' = a.stats
            /\ IF idx < Len(image_files)
               THEN /\ images_with_data' = all
                    /\ console' = a.console
                    /\ idx' = idx + 1
                    /\ pc' = "analyse"
               ELSE /\ images_with_data' = SortByDate(all)
                    /\ console' = Append(a.console, <<"Kopiere Bilder: ", Len(all)>>)
                    /\ idx' = 1
                    /\ pc' = "copy"
    /\ UNCHANGED <<source_exists, tree, dest_exists, dest_files, csv_file,
                   include_gps, include_dir, gps_data, image_files, exit_code,
                   arg, ret>>

\* dest_dir with file name written
WriteFile(dir, name, content) ==
    [n \in DOMAIN dir \cup {name} |-> IF n = name THEN content ELSE dir[n]]

\* lines 315-316: the name a copy is written under
DestName(item) ==
    get_unique_filename(
        generate_new_filename(item.path, item.date, item.gps_coords, item.subfolder),
        dest_exists, DOMAIN dest_files)

\* line 322: whether the copy's coordinates go to gps_data
CollectsGps(item) == item.gps_coords # None /\ include_gps

\* lines 324-325
GpsEntry(unique_filename, item) ==
    <<unique_filename, item.gps_coords[1], item.gps_coords[2], StrftimeLong(item.date)>>

\* A collection that records the coordinates whether or not the copy succeeded.
GpsDataRegardless(outcome, data, item, unique_filename) ==
    IF CollectsGps(item)
    THEN Append(data, GpsEntry(unique_filename, item))
    ELSE data

\* lines 321-325: self.gps_data after a pass of the copy loop
GpsDataAfter(outcome, data, item, unique_filename) ==
    IF outcome = "copied" /\ CollectsGps(item)
    THEN Append(data, GpsEntry(unique_filename, item))
    ELSE data

\* A loop that a failed copy leaves.
AfterCopyStop(outcome, i, n) ==
    IF outcome # "copied" \/ i >= n THEN "finish" ELSE "copy"

\* lines 313, 339-341: where the run is after pass i of n of the copy loop:
\* the except clause keeps an exception of the pass from leaving the loop
AfterCopy(outcome, i, n) ==
    IF i < n THEN "copy" ELSE "finish"

\* lines 313-341: one pass of the copy loop. shutil.copy2 succeeds, or
\* raises leaving nothing or a part of the file behind.
Copy ==
    /\ pc = "copy"
    /\ LET item == images_with_data[idx]
           unique_filename == DestName(item)
       IN  \E outcome \in {"copied", "failed", "failed_partly"} :
            /\ dest_files' =
                 CASE outcome = "copied" ->
                        WriteFile(dest_files, unique_filename, <<"copy", item.path>>)
                   [] outcome = "failed_partly" ->
                        WriteFile(dest_files, unique_filename, <<"part", item.path>>)
                   [] OTHER -> dest_files
            /\ gps_data' = GpsDataAfter(outcome, gps_data, item, unique_filename)
            /\ IF outcome = "copied"
               THEN /\ console' = Append(console, <<"Kopiert: ", item.path, unique_filename>>)
                    /\ stats' = Incr(stats, "copied_files")
               ELSE /\ console' = Append(console, <<"Fehler beim Kopieren von", item.path>>)
                    /\ stats' = Incr(stats, "error_files")
            /\ pc' = AfterCopy(outcome, idx, Len(images_with_data))
    /\ idx' = idx + 1
    /\ UNCHANGED <<source_exists, tree, dest_exists, csv_file, include_gps,
                   include_dir, image_files, images_with_data, exit_code, arg, ret>>

\* lines 254-256: the rows create_gps_csv writes below the header
CsvRows(data) ==
    [i \in DOMAIN data |->
        <<data[i][1], data[i][2], data[i][3], <<"Foto aufgenommen am ", data[i][4]>>>>]

\* lines 238-262: the file and the message create_gps_csv can leave. open()
\* may raise, leaving the file as it was; a write may raise, leaving the
\* lines written before it.
CsvOutcomes(data, before) ==
    IF data = <<>>
    THEN {[file |-> before, message |-> <<"Keine GPS-Daten gefunden">>]}
    ELSE LET lines == <<CsvHeader>> \o CsvRows(data)
         IN  {[file |-> [exists |-> TRUE, rows |-> lines],
               message |-> <<"GPS-Positionsdaten gespeichert: ", Len(data)>>]}
             \cup {[file |-> before,
                    message |-> <<"Fehler beim Erstellen der CSV-Datei">>]}
             \cup {[file |-> [exists |-> TRUE, rows |-> SubSeq(lines, 1, k)],
                    message |-> <<"Fehler beim Erstellen der CSV-Datei">>] :
                        k \in 0..(Len(lines) - 1)}

\* lines 343-351 and the normal end of main
Finish ==
    /\ pc = "finish"
    /\ LET con == Append(console, <<"Fertig! ", stats["copied_files"]>>)
       IN  IF include_gps
           THEN \E o \in CsvOutcomes(gps_data, csv_file) :
                  /\ csv_file' = o.file
                  /\ console' = con \o <<o.message, <<"STATISTIK", stats>>>>
           ELSE /\ csv_file' = csv_file
                /\ console' = Append(con, <<"STATISTIK", stats>>)
    /\ exit_code' = 0
    /\ pc' = "exit"
    /\ UNCHANGED <<source_exists, tree, dest_exists, dest_files, include_gps,
                   include_dir, stats, gps_data, image_files, images_with_data,
                   idx, arg, ret>>

Next == Start \/ Analyse \/ Copy \/ Finish

Spec == Init /\ [][Next]_vars

----------------------------------------------------------------------------
(* Single calls: one function applied to one input. *)

\* the path the single calls are made for
CallPath == TreeCandidates[1]

InitCall ==
    /\ source_exists = TRUE
    /\ tree = <<>>
    /\ csv_file = NoCsv
    /\ include_dir = FALSE
    /\ gps_data = <<>>
    /\ image_files = <<>>
    /\ images_with_data = <<>>
    /\ idx = 0
    /\ pc = "call"
    /\ exit_code = -1
    /\ console = <<>>
    /\ ret = NoCall

\* get_image_date on any file, after any calls before it
InitDate ==
    /\ InitCall
    /\ dest_exists = TRUE
    /\ dest_files = <<>>
    /\ include_gps = FALSE
    /\ stats \in PriorStats
    /\ \E meta \in DateMetas :
         arg \in {[kind |-> "date", meta |-> meta, now |-> now, stats |-> stats] :
                      now \in NowChoices(meta, 0..MaxFsTick)}

DateCall ==
    /\ pc = "call"
    /\ arg.kind = "date"
    /\ LET r == get_image_date(CallPath, arg.meta, arg.now, stats, console)
       IN  /\ ret' = [kind |-> "date", date |-> r.date, source |-> r.source]
           /\ stats' = r.stats
           /\ console' = r.console
    /\ pc' = "returned"
    /\ UNCHANGED <<run_vars_but_pc, arg>>

SpecDate == InitDate /\ [][DateCall]_vars

\* get_gps_coordinates on any file, with --gps and without
InitGps ==
    /\ InitCall
    /\ dest_exists = TRUE
    /\ dest_files = <<>>
    /\ include_gps \in BOOLEAN
    /\ stats \in {st \in PriorStats : st["exif_files"] = 0 /\ st["filesystem_date_files"] = 0
                                       /\ st["current_date_files"] = 0}
    /\ arg \in {[kind |-> "gps", meta |-> meta, stats |-> stats] : meta \in GpsMetas}

GpsCall ==
    /\ pc = "call"
    /\ arg.kind = "gps"
    /\ LET r == get_gps_coordinates(CallPath, arg.meta, include_gps, stats, console)
       IN  /\ ret' = [kind |-> "gps", coords |-> r.coords]
           /\ stats' = r.stats
           /\ console' = r.console
    /\ pc' = "returned"
    /\ UNCHANGED <<run_vars_but_pc, arg>>

SpecGps == InitGps /\ [][GpsCall]_vars

\* get_unique_filename on a composed name, for any files in the destination
NameBases ==
    { generate_new_filename(TreeCandidates[1], 0, None, <<>>),
      generate_new_filename(TreeCandidates[3], 0, None, <<>>),
      generate_new_filename(TreeCandidates[2], TicksPerSecond, <<162000, -324000>>,
                            <<"_", "a", "_">>) }

NameDirs ==
    {[n \in P |-> OldContent] :
        P \in SUBSET {Suffixed(b, k) : b \in NameBases, k \in 0..MaxSuffix}}

InitName ==
    /\ InitCall
    /\ dest_exists \in BOOLEAN
    /\ dest_files \in (IF dest_exists THEN NameDirs ELSE {<<>>})
    /\ include_gps = FALSE
    /\ stats = InitStats
    /\ arg \in {[kind |-> "name", base_filename |-> b] : b \in NameBases}

\* lines 222-226: the entry of get_unique_filename
NameCall ==
    /\ pc = "call"
    /\ arg.kind = "name"
    /\ IF ~dest_exists
       THEN /\ ret' = [kind |-> "name", name |-> arg.base_filename]
            /\ pc' = "returned"
       ELSE /\ ret' = ret
            /\ pc' = "probe"
    /\ idx' = 0
    /\ UNCHANGED <<source_exists, tree, dest_exists, dest_files, csv_file,
                   include_gps, include_dir, gps_data, image_files,
                   images_with_data, exit_code, stats, console, arg>>

\* lines 228-236: one pass of the while loop; idx is counter
NameProbe ==
    /\ pc = "probe"
    /\ LET test_filename == Candidate(arg.base_filename, idx)
       IN  IF test_filename \notin DOMAIN dest_files
           THEN /\ ret' = [kind |-> "name", name |-> test_filename]
                /\ pc' = "returned"
                /\ idx' = idx
           ELSE /\ ret' = ret
                /\ pc' = "probe"
                /\ idx' = idx + 1
    /\ UNCHANGED <<source_exists, tree, dest_exists, dest_files, csv_file,
                   include_gps, include_dir, gps_data, image_files,
                   images_with_data, exit_code, stats, console, arg>>

NextName == NameCall \/ NameProbe

\* the loop runs on: nothing else is scheduled
SpecName == InitName /\ [][NextName]_vars /\ WF_vars(NextName)

----------------------------------------------------------------------------
(* The date of an image. *)

\* the tag values that are dates written YYYY:MM:DD HH:MM:SS
WellFormedDates == {<<1970, 1, 1, 0, 0, s>> : s \in 0..MaxSecond}

\* the file shows a DateTimeOriginal tag that is such a date
TagParses(meta) ==
    /\ meta.openable
    /\ meta.has_exif
    /\ meta.dto # <<>>
    /\ meta.dto[1].type = "str"
    /\ meta.dto[1].text \in WellFormedDates

\* the file shows a DateTimeOriginal tag that is no such date
TagUnusable(meta) ==
    /\ meta.openable
    /\ meta.has_exif
    /\ meta.dto # <<>>
    /\ ~TagParses(meta)

Earlier(a, b) == IF a < b THEN a ELSE b

Warned(text) == \E i \in DOMAIN console : console[i][1] = text

\* C1: get_image_date returns the result of the first step that succeeds:
\* the date of a DateTimeOriginal tag that parses, with provenance EXIF,
\* whatever the file times are; otherwise the earlier of creation and
\* modification time, with provenance Filesystem; the current time, with
\* provenance CurrentDate, only when the file times cannot be read. The
\* counter of that provenance, and no other counter, goes up by one.
C1_FirstSuccessWins ==
    (pc = "returned" /\ arg.kind = "date") =>
        LET m == arg.meta
        IN  IF TagParses(m)
            THEN /\ ret.date = m.dto[1].text[6] * TicksPerSecond
                 /\ ret.source[1] = "EXIF: "
                 /\ stats = [arg.stats EXCEPT !["exif_files"] = @ + 1]
            ELSE IF m.stat_ok
            THEN /\ ret.date = Earlier(m.ctime, m.mtime)
                 /\ ret.source[1] = "Dateisystem: "
                 /\ stats = [arg.stats EXCEPT !["filesystem_date_files"] = @ + 1]
            ELSE /\ ret.date = arg.now
                 /\ ret.source[1] = "Aktuelles Datum: "
                 /\ stats = [arg.stats EXCEPT !["current_date_files"] = @ + 1]

\* a tag that parses won over file times that show another date
C1_Witness ==
    /\ pc = "returned"
    /\ arg.kind = "date"
    /\ TagParses(arg.meta)
    /\ arg.meta.stat_ok
    /\ Earlier(arg.meta.ctime, arg.meta.mtime) # ret.date
    /\ ret.source[1] = "EXIF: "

\* C8: every step of the date chain that fails prints a warning before the
\* next step is tried: a file that cannot be opened, a DateTimeOriginal tag
\* that is present but does not parse, file times that cannot be read.
C8_EveryFailureWarned ==
    (pc = "returned" /\ arg.kind = "date") =>
        /\ (~arg.meta.openable \/ TagUnusable(arg.meta))
              => Warned("Warnung: Konnte Exif-Daten nicht lesen fuer")
        /\ (~TagParses(arg.meta) /\ ~arg.meta.stat_ok)
              => Warned("Warnung: Konnte Dateisystem-Datum nicht lesen fuer")

----------------------------------------------------------------------------
(* The coordinates of an image. *)

\* C7: the coordinates get_gps_coordinates returns lie within -90..90
\* degrees of latitude and -180..180 degrees of longitude.
C7_CoordsInRange ==
    (pc = "returned" /\ arg.kind = "gps" /\ ret.coords # None) =>
        /\ ret.coords[1] >= -(90 * 3600) /\ ret.coords[1] <= 90 * 3600
        /\ ret.coords[2] >= -(180 * 3600) /\ ret.coords[2] <= 180 * 3600

----------------------------------------------------------------------------
(* A name that is free in the destination. *)

\* what get_unique_filename returned is free; it is the composed name when
\* that is free, else the name with the smallest _<n>, n >= 1, that is free
C3_Result ==
    (pc = "returned" /\ arg.kind = "name") =>
        LET b == arg.base_filename
            present == DOMAIN dest_files
        IN  /\ ret.name \notin present
            /\ b \notin present => ret.name = b
            /\ b \in present =>
                  \E n \in 1..(Cardinality(present) + 1) :
                      /\ ret.name = Suffixed(b, n)
                      /\ \A k \in 1..(n - 1) : Suffixed(b, k) \in present
            /\ ret.name = get_unique_filename(b, dest_exists, present)

\* the loop has tried, and found present, the name and every suffix below counter
C3_TriedBelow ==
    pc = "probe" => \A k \in 0..(idx - 1) : Suffixed(arg.base_filename, k) \in DOMAIN dest_files

\* counter goes up by one from pass to pass
C3_Order == (pc = "probe" /\ pc' = "probe") => idx' = idx + 1

\* C3: get_unique_filename returns the composed name if it is free, and else
\* the name with _<n> before the extension for the smallest n >= 1 that is
\* free; it probes n = 1, 2, 3, ... in this order, never returns a name
\* present in the destination, and its loop ends.
C3_UniqueName ==
    /\ [](C3_Result /\ C3_TriedBelow)
    /\ [][C3_Order]_vars
    /\ <>(pc = "returned")

\* the composed name and its suffix _1 were taken: _2 was returned
C3_Witness ==
    /\ pc = "returned"
    /\ arg.kind = "name"
    /\ idx = 2
    /\ ret.name = Suffixed(arg.base_filename, 2)

----------------------------------------------------------------------------
(* A whole run, read off the console and the destination. *)

IsCopyLine(line) == line[1] \in {"Kopiert: ", "Fehler beim Kopieren von"}

IsCopiedLine(line) == line[1] = "Kopiert: "

\* the lines the copy loop printed, one for each file it attempted
CopyLines == SelectSeq(console, IsCopyLine)

\* the lines of the files it copied
CopiedLines == SelectSeq(console, IsCopiedLine)

\* the analysed image of a path, and the place find_image_files found it at
ItemOf(path) == CHOOSE item \in Range(images_with_data) : item.path = path

PlaceOf(path) == CHOOSE i \in DOMAIN image_files : image_files[i] = path

DateOf(path) == ItemOf(path).date

RunEndedWell == pc = "exit" /\ exit_code = 0

\* C2: the files are copied in ascending order of their resolved timestamp
\* alone: the earlier timestamp is copied first, equal timestamps in the
\* order find_image_files found them, and every analysed file is attempted.
C2_CopyOrder ==
    /\ \A i, j \in DOMAIN CopyLines :
          i < j =>
            \/ DateOf(CopyLines[i][2]) < DateOf(CopyLines[j][2])
            \/ /\ DateOf(CopyLines[i][2]) = DateOf(CopyLines[j][2])
               /\ PlaceOf(CopyLines[i][2]) < PlaceOf(CopyLines[j][2])
    /\ pc = "finish" => Len(CopyLines) = Len(image_files)

\* the file found second was copied first: it is the older one, though it
\* alone shows coordinates
C2_Witness ==
    /\ pc = "finish"
    /\ Len(CopyLines) = 2
    /\ PlaceOf(CopyLines[1][2]) = 2
    /\ DateOf(CopyLines[1][2]) < DateOf(CopyLines[2][2])
    /\ ItemOf(CopyLines[1][2]).gps_coords # None
    /\ ItemOf(CopyLines[2][2]).gps_coords = None

\* a pass of the copy loop that does not copy its file counts one error,
\* reports it, and leaves the run in the loop, at the next file
C4_FailureStep ==
    (pc = "copy" /\ stats'["copied_files"] = stats["copied_files"]) =>
        /\ stats'["error_files"] = stats["error_files"] + 1
        /\ console' = Append(console, <<"Fehler beim Kopieren von", images_with_data[idx].path>>)
        /\ idx' = idx + 1
        /\ pc' = (IF idx < Len(images_with_data) THEN "copy" ELSE "finish")
        /\ exit_code' = -1

\* after a failed copy the run is at a next file of the loop or past the
\* loop; it ends with status 0, the statistics printed last and every
\* analysed file attempted
C4_RunsOn ==
    (\E i \in DOMAIN console : console[i][1] = "Fehler beim Kopieren von") =>
        /\ pc # "exit" =>
              /\ exit_code = -1
              /\ pc = "finish" \/ (pc = "copy" /\ idx \in DOMAIN images_with_data)
        /\ pc = "exit" =>
              /\ exit_code = 0
              /\ console[Len(console)][1] = "STATISTIK"
              /\ Len(CopyLines) = Len(images_with_data)
              /\ Len(images_with_data) = Len(image_files)

\* C4: a failure while copying one file never stops the batch: it is caught,
\* the error counter goes up by one and the copied counter does not, every
\* file after it is still attempted, and the run ends with status 0 and the
\* statistics printed.
C4_CopyFailureContained == [][C4_FailureStep]_vars /\ []C4_RunsOn

\* the first copy failed, the second file was copied, the run ended well
C4_Witness ==
    /\ RunEndedWell
    /\ Len(CopyLines) = 2
    /\ CopyLines[1][1] = "Fehler beim Kopieren von"
    /\ CopyLines[2][1] = "Kopiert: "
    /\ stats["error_files"] = 1
    /\ stats["copied_files"] = 1

\* C5: when the source directory does not exist the run ends with status 1
\* before any work is done: nothing is analysed or copied, and the
\* destination directory and its files are as they were before the run.
C5_MissingSourceNoWork ==
    [][~source_exists =>
          /\ dest_exists' = dest_exists
          /\ dest_files' = dest_files
          /\ csv_file' = csv_file
          /\ images_with_data' = <<>>
          /\ stats' = stats
          /\ pc' = "exit" => exit_code' = 1]_vars

\* the copied files that show coordinates, as <<destination name, latitude, longitude>>
CopiedWithCoords ==
    {<<CopiedLines[i][3], ItemOf(CopiedLines[i][2]).gps_coords[1],
       ItemOf(CopiedLines[i][2]).gps_coords[2]>> :
        i \in {k \in DOMAIN CopiedLines : ItemOf(CopiedLines[k][2]).gps_coords # None}}

\* the data rows of gps_positions.csv, below its header
DataRows == IF csv_file.rows = <<>> THEN <<>> ELSE Tail(csv_file.rows)

RowKey(row) == <<row[1], row[2], row[3]>>

\* gps_positions.csv holds one data row for each copied file with coordinates
CsvComplete ==
    /\ csv_file.exists
    /\ csv_file.rows # <<>>
    /\ csv_file.rows[1] = CsvHeader
    /\ Len(DataRows) = Cardinality(CopiedWithCoords)
    /\ {RowKey(DataRows[i]) : i \in DOMAIN DataRows} = CopiedWithCoords

\* the run wrote no gps_positions.csv
CsvNotWritten == csv_file \in {NoCsv, OldCsv}

\* without --gps no coordinates are read
NothingExtracted ==
    /\ stats["gps_files"] = 0
    /\ \A i \in DOMAIN images_with_data : images_with_data[i].gps_coords = None

CsvWriteFailed ==
    \E i \in DOMAIN console : console[i][1] = "Fehler beim Erstellen der CSV-Datei"

\* C6 as stated: with --gps, at the end of a run gps_positions.csv holds
\* exactly one data row for each file that was copied and showed
\* coordinates, under its final destination name, and no other row; without
\* such a file, or without --gps, no CSV is written, and without --gps no
\* coordinates are extracted.
C6_CsvRowsAlways ==
    /\ RunEndedWell =>
          IF include_gps /\ CopiedWithCoords # {} THEN CsvComplete ELSE CsvNotWritten
    /\ ~include_gps => NothingExtracted

\* C6 as amended: the same, unless writing gps_positions.csv itself failed;
\* then the failure is reported and the file holds no data row but rows of
\* copied files that showed coordinates, each at most once.
C6_CsvRows ==
    /\ RunEndedWell =>
          IF include_gps /\ CopiedWithCoords # {}
          THEN IF CsvWriteFailed
               THEN \/ CsvNotWritten
                    \/ /\ {RowKey(DataRows[i]) : i \in DOMAIN DataRows} \subseteq CopiedWithCoords
                       /\ \A i, j \in DOMAIN DataRows : DataRows[i] = DataRows[j] => i = j
                       /\ Len(DataRows) < Cardinality(CopiedWithCoords)
               ELSE CsvComplete
          ELSE CsvNotWritten /\ ~CsvWriteFailed
    /\ ~include_gps => NothingExtracted

\* two files showed coordinates, the copy of the first failed, the second
\* was copied: the CSV holds the one row of the second
C6_Witness ==
    /\ RunEndedWell
    /\ include_gps
    /\ ~CsvWriteFailed
    /\ Len(CopyLines) = 2
    /\ CopyLines[1][1] = "Fehler beim Kopieren von"
    /\ ItemOf(CopyLines[1][2]).gps_coords # None
    /\ CopyLines[2][1] = "Kopiert: "
    /\ Len(DataRows) = 1
    /\ DataRows[1][1] = CopyLines[2][3]

\* a step of the run leaves every file of the destination as it was
C9_NoOverwrite ==
    \A n \in DOMAIN dest_files : n \in DOMAIN dest_files' /\ dest_files'[n] = dest_files[n]

\* the copies of a run have different names, and each name holds its copy
C9_DistinctNames ==
    /\ \A i, j \in DOMAIN CopiedLines : CopiedLines[i][3] = CopiedLines[j][3] => i = j
    /\ \A i \in DOMAIN CopiedLines :
          /\ CopiedLines[i][3] \in DOMAIN dest_files
          /\ dest_files[CopiedLines[i][3]] = <<"copy", CopiedLines[i][2]>>

\* C9: within a run no copy overwrites a file: a name is absent from the
\* destination when it is written, the files found there stay as they were,
\* and two copies get different names even when their composed names agree.
C9_NeverOverwrites == [][C9_NoOverwrite]_vars /\ []C9_DistinctNames

ComposedOf(path) ==
    generate_new_filename(path, ItemOf(path).date, ItemOf(path).gps_coords,
                          ItemOf(path).subfolder)

\* two copies with one composed name, which a file found in the
\* destination already had
C9_Witness ==
    /\ pc = "finish"
    /\ Len(CopiedLines) = 2
    /\ ComposedOf(CopiedLines[1][2]) = ComposedOf(CopiedLines[2][2])
    /\ ComposedOf(CopiedLines[1][2]) \in DOMAIN dest_files
    /\ dest_files[ComposedOf(CopiedLines[1][2])] = OldContent
    /\ CopiedLines[1][3] # CopiedLines[2][3]

\* C10: the counters add up. At the end of a run that ends well the three
\* provenance counters sum to total_files and so do copied_files and
\* error_files; during the run copied_files + error_files never exceeds
\* total_files and gps_files never exceeds the number of files analysed.
C10_Counters ==
    /\ RunEndedWell =>
          /\ stats["exif_files"] + stats["filesystem_date_files"]
                + stats["current_date_files"] = stats["total_files"]
          /\ stats["copied_files"] + stats["error_files"] = stats["total_files"]
    /\ stats["copied_files"] + stats["error_files"] <= stats["total_files"]
    /\ stats["gps_files"] <= Len(images_with_data)

\* a run with an EXIF date, a current date, a copy and a failed copy
C10_Witness ==
    /\ RunEndedWell
    /\ stats["exif_files"] = 1
    /\ stats["current_date_files"] = 1
    /\ stats["copied_files"] = 1
    /\ stats["error_files"] = 1

====
